---- MODULE Spec2Model ----
(***************************************************************************)
(* Homomorphic vote-tallying core of the e-voting backend:                 *)
(*   backend/apps/encryption/paillier.py  (Paillier, threshold, facade)    *)
(*   backend/apps/encryption/shamir.py    (Shamir secret sharing)          *)
(*   backend/apps/elections/admin.py      (deploy_on_chain, decrypt_tally) *)
(* Big integers are modelled by small ones: the primes of a key pair have  *)
(* 3 or 4 bits instead of 256, the sharing prime is a small prime instead  *)
(* of a 256-bit one.                                                       *)
(***************************************************************************)
EXTENDS Integers, Sequences, FiniteSets, TLC

VARIABLES
    key_pair,       \* the PaillierKeyPair in use, or NoKey
    message,        \* plaintext handed to the last encrypt call
    c1, m1, r1,     \* first ciphertext operand, its plaintext and the r it drew
    c2, m2, r2,     \* second ciphertext operand, its plaintext and the r it drew
    scalar,         \* scalar handed to the last multiply_ciphertext call
    ciphertext,     \* ciphertext returned by the last ciphertext operation
    decrypted,      \* plaintext returned by the last decrypt call
    op,             \* the last operation performed
    error,          \* exception raised by the last operation, or "none"
    encrypted_votes,\* the list of encrypted votes handed to aggregate_votes
    votes,          \* the vote values behind encrypted_votes, in the same order
    accumulated,    \* the positions in encrypted_votes of the ballots that the
                    \* writer has folded into its accumulator, in its order
    shamir,         \* the ShamirSecretSharing instance, or NoShamir
    secret,         \* secret handed to generate_shares
    coefficients,   \* the random coefficients a1.. that generate_shares drew
    shares,         \* the list returned by generate_shares
    supplied,       \* the list of shares handed to reconstruct_secret
    reconstructed,  \* the value returned by reconstruct_secret
    threshold_paillier, \* the ThresholdPaillier instance, or NoThreshold
    partial_results,    \* the partial decryptions collected so far
    used_shares,        \* the positions in shares of the shares behind them
    td_combined,        \* the value returned by ThresholdDecryption.combine_partial_decryptions
    election,       \* the key fields of the Election row
    on_chain,       \* whether the election exists on the blockchain
    stored_votes,   \* the Vote rows of the election, oldest first
    election_result,\* the ElectionResult row, or NoResult
    tally_key,      \* where the last decrypt_tally took its key pair from
    pool,           \* the ciphertexts obtained so far, oldest first
    checked_vote,   \* the integer handed to verify_vote_encryption
    share,          \* the share handed to verify_share
    verified        \* the value returned by the last verify_ call

cipherVars == <<message, c1, m1, r1, c2, m2, r2, scalar>>
tallyVars == <<encrypted_votes, votes, accumulated>>
shamirVars == <<shamir, secret, coefficients, shares, supplied, reconstructed>>

thresholdVars == <<threshold_paillier, partial_results, used_shares, td_combined>>
electionVars == <<election, on_chain, stored_votes, election_result, tally_key>>

verifyVars == <<pool, checked_vote, share, verified>>

vars == <<key_pair, cipherVars, ciphertext, decrypted, op, error, tallyVars,
          shamirVars, thresholdVars, electionVars, verifyVars>>

----------------------------------------------------------------------------
(* Bounds of the model *)

\* encrypt draws its r from 1 .. Min(n - 1, MaxRand)
MaxRand == 5
\* encrypt_vote in the tally draws its r from 1 .. Min(n - 1, MaxVoteRand)
MaxVoteRand == 2
\* plaintexts are drawn from -1 .. MaxMessage and from n - 2 .. n + 1
MaxMessage == 3
\* largest scalar handed to multiply_ciphertext
MaxScalar == 4
\* longest list of encrypted votes
MaxVotes == 3
\* largest total_shares and largest threshold of a ShamirSecretSharing
MaxShares == 4
MaxThreshold == 3
\* generate_shares draws its coefficients from 1 .. Min(prime - 1, MaxCoefficient)
MaxCoefficient == 3
\* largest total_trustees of a ThresholdPaillier
MaxTrustees == 2
\* largest number of votes cast in the election
MaxBallots == 2
\* largest number of ciphertexts obtained one from another
MaxPool == 3
\* integers handed to verify_vote_encryption run from -2 to MaxCheckedVote,
\* besides those around n and n^2
MaxCheckedVote == 12

\* key sizes handed to PaillierEncryption(key_size): 3-bit and 4-bit primes
KeySizes == {6, 8}
\* the smallest key size that getPrime accepts: the primes are 2 and 3, and
\* lambda = 2 has no inverse mod n = 6
DegenerateKeySizes == {4}

None == -1
NoKey == [n |-> 0, g |-> 0, lambda_val |-> 0, mu |-> 0]
NoShamir == [total_shares |-> 0, threshold |-> 0, prime |-> 0]
NoThreshold == [total_trustees |-> 0, threshold |-> 0]
NoResult == [candidate_results |-> <<>>, total_votes |-> None]

Return(v) == [error |-> "none", value |-> v]
Raise(e) == [error |-> e, value |-> None]

----------------------------------------------------------------------------
(* Integer arithmetic of Python and of Crypto.Util.number *)

Min(a, b) == IF a < b THEN a ELSE b

\* math.gcd
RECURSIVE gcd(_, _)
gcd(a, b) == IF b = 0 THEN (IF a < 0 THEN -a ELSE a) ELSE gcd(b, a % b)

\* math.lcm
lcm(a, b) == IF a = 0 \/ b = 0 THEN 0 ELSE (a * b) \div gcd(a, b)

\* pow(base, exp, mod) for exp >= 0, by repeated squaring
RECURSIVE pow(_, _, _)
pow(base, exp, mod) ==
    IF exp = 0 THEN 1 % mod
    ELSE LET half == pow(base, exp \div 2, mod)
             sq   == (half * half) % mod
         IN  IF exp % 2 = 1 THEN (sq * (base % mod)) % mod ELSE sq

IsPrime(x) == x >= 2 /\ \A d \in 2..(x - 1) : d * d > x \/ x % d # 0

\* Crypto.Util.number.getPrime(N): the primes of exactly N bits
getPrime(N) == {x \in 2^(N - 1) .. (2^N - 1) : IsPrime(x)}

\* Crypto.Util.number.inverse(u, v): u^-1 mod v, a ValueError when there is none
inverse(u, v) ==
    IF gcd(u, v) = 1
    THEN Return(CHOOSE x \in 0..(v - 1) : (u * x) % v = 1 % v)
    ELSE Raise("ValueError")

\* random.randint(a, b)
randint(a, b) == a .. b

Range(seq) == {seq[i] : i \in 1..Len(seq)}

\* sum(seq)
RECURSIVE sum(_)
sum(seq) == IF seq = <<>> THEN 0 ELSE Head(seq) + sum(Tail(seq))

----------------------------------------------------------------------------
(* paillier.py: PaillierKeyPair and PaillierEncryption *)

\* PaillierKeyPair.__init__: mu is recomputed from lambda and n
PaillierKeyPair(public_key, private_key) ==
    [n          |-> public_key[1],
     g          |-> public_key[2],
     lambda_val |-> private_key,
     mu         |-> inverse(private_key, public_key[1]).value]

public_key_of(kp) == <<kp.n, kp.g>>

\* generate_key_pair with lambda = (p - 1) * (q - 1)
generate_key_pair_phi(p, q) ==
    LET n_         == p * q
        lambda_val == (p - 1) * (q - 1)
        g_         == n_ + 1
        mu_        == inverse(lambda_val, n_)
    IN  IF mu_.error # "none" THEN Raise(mu_.error)
        ELSE Return(PaillierKeyPair(<<n_, g_>>, lambda_val))

\* PaillierEncryption.generate_key_pair, for the primes p and q it drew
generate_key_pair(p, q) ==
    LET n_         == p * q
        lambda_val == lcm(p - 1, q - 1)
        g_         == n_ + 1
        mu_        == inverse(lambda_val, n_)
    IN  IF mu_.error # "none" THEN Raise(mu_.error)
        ELSE Return(PaillierKeyPair(<<n_, g_>>, lambda_val))

\* the draws of random.randint(1, n - 1) in encrypt, cut at MaxRand
draws_of_r(n_) == randint(1, Min(n_ - 1, MaxRand))

\* the r that encrypt ends with when its first draw is r0: r0 itself when it
\* is coprime to n, any coprime later draw otherwise
random_r(r0, n_) ==
    IF gcd(r0, n_) = 1 THEN {r0}
    ELSE {r \in draws_of_r(n_) : gcd(r, n_) = 1}

\* encrypt with the range check replaced by a reduction of the message mod n
encrypt_reducing(message_, public_key, r) ==
    LET n_        == public_key[1]
        g_        == public_key[2]
        n_squared == n_ * n_
    IN  Return((pow(g_, message_ % n_, n_squared) * pow(r, n_, n_squared)) % n_squared)

\* encrypt without the factor r^n
encrypt_deterministic(message_, public_key, r) ==
    LET n_        == public_key[1]
        g_        == public_key[2]
        n_squared == n_ * n_
    IN  IF message_ < 0 \/ message_ >= n_ THEN Raise("ValueError")
        ELSE Return(pow(g_, message_, n_squared))

\* PaillierEncryption.encrypt, for the r it ends with
encrypt(message_, public_key, r) ==
    LET n_        == public_key[1]
        g_        == public_key[2]
        n_squared == n_ * n_
    IN  IF message_ < 0 \/ message_ >= n_ THEN Raise("ValueError")
        ELSE Return((pow(g_, message_, n_squared) * pow(r, n_, n_squared)) % n_squared)

\* decrypt without the multiplication by mu
decrypt_without_mu(ciphertext_, kp) ==
    LET n_squared == kp.n * kp.n
        x         == pow(ciphertext_, kp.lambda_val, n_squared)
        l_x       == (x - 1) \div kp.n
    IN  l_x % kp.n

\* PaillierEncryption.decrypt
decrypt(ciphertext_, kp) ==
    LET n_squared == kp.n * kp.n
        x         == pow(ciphertext_, kp.lambda_val, n_squared)
        l_x       == (x - 1) \div kp.n
    IN  (l_x * kp.mu) % kp.n

\* add_ciphertexts adding the ciphertexts instead of multiplying them
add_ciphertexts_sum(ciphertext1, ciphertext2, public_key) ==
    LET n_squared == public_key[1] * public_key[1]
    IN  (ciphertext1 + ciphertext2) % n_squared

\* add_ciphertexts multiplying the first ciphertext by itself
add_ciphertexts_first_twice(ciphertext1, ciphertext2, public_key) ==
    LET n_squared == public_key[1] * public_key[1]
    IN  (ciphertext1 * ciphertext1) % n_squared

\* add_ciphertexts multiplying the square of the first ciphertext by the second
add_ciphertexts_squaring(ciphertext1, ciphertext2, public_key) ==
    LET n_squared == public_key[1] * public_key[1]
    IN  (((ciphertext1 * ciphertext1) % n_squared) * ciphertext2) % n_squared

\* PaillierEncryption.add_ciphertexts
add_ciphertexts(ciphertext1, ciphertext2, public_key) ==
    LET n_squared == public_key[1] * public_key[1]
    IN  (ciphertext1 * ciphertext2) % n_squared

\* multiply_ciphertext multiplying by the scalar instead of raising to it
multiply_ciphertext_product(ciphertext_, scalar_, public_key) ==
    LET n_squared == public_key[1] * public_key[1]
    IN  (ciphertext_ * scalar_) % n_squared

\* multiply_ciphertext returning 0 for the scalar 0
multiply_ciphertext_zero(ciphertext_, scalar_, public_key) ==
    LET n_squared == public_key[1] * public_key[1]
    IN  IF scalar_ = 0 THEN 0 ELSE pow(ciphertext_, scalar_, n_squared)

\* PaillierEncryption.multiply_ciphertext
multiply_ciphertext(ciphertext_, scalar_, public_key) ==
    LET n_squared == public_key[1] * public_key[1]
    IN  pow(ciphertext_, scalar_, n_squared)

\* VoteEncryption.encrypt_vote
encrypt_vote(vote_value, public_key, r) == encrypt(vote_value, public_key, r)

\* VoteEncryption.aggregate_votes: the loop over encrypted_votes[1:]
RECURSIVE aggregate_loop(_, _, _)
aggregate_loop(result, rest, public_key) ==
    IF rest = <<>> THEN result
    ELSE aggregate_loop(add_ciphertexts(result, Head(rest), public_key),
                        Tail(rest), public_key)

\* aggregate_votes looping over encrypted_votes[2:] instead of [1:]
aggregate_votes_skipping(encrypted_votes_, public_key) ==
    IF encrypted_votes_ = <<>> THEN 0
    ELSE aggregate_loop(Head(encrypted_votes_),
                        IF Len(encrypted_votes_) > 1 THEN Tail(Tail(encrypted_votes_))
                        ELSE <<>>,
                        public_key)

\* aggregate_votes returning the ciphertext 1 for an empty list
aggregate_votes_one(encrypted_votes_, public_key) ==
    IF encrypted_votes_ = <<>> THEN 1
    ELSE aggregate_loop(Head(encrypted_votes_), Tail(encrypted_votes_), public_key)

\* VoteEncryption.aggregate_votes
aggregate_votes(encrypted_votes_, public_key) ==
    IF encrypted_votes_ = <<>> THEN 0
    ELSE aggregate_loop(Head(encrypted_votes_), Tail(encrypted_votes_), public_key)

\* verify_vote_encryption without the coprimality check
verify_vote_encryption_range_only(encrypted_vote, public_key) ==
    LET n_squared == public_key[1] * public_key[1]
    IN  ~(encrypted_vote <= 0 \/ encrypted_vote >= n_squared)

\* VoteEncryption.verify_vote_encryption
verify_vote_encryption(encrypted_vote, public_key) ==
    LET n_        == public_key[1]
        n_squared == n_ * n_
    IN  IF encrypted_vote <= 0 \/ encrypted_vote >= n_squared THEN FALSE
        ELSE IF gcd(encrypted_vote, n_) # 1 THEN FALSE
        ELSE TRUE

----------------------------------------------------------------------------
(* shamir.py: ShamirSecretSharing *)

\* ShamirSecretSharing.__init__
ShamirSecretSharing(total_shares, threshold, prime) ==
    IF threshold > total_shares THEN Raise("ValueError")
    ELSE [error |-> "none",
          value |-> [total_shares |-> total_shares, threshold |-> threshold,
                     prime |-> prime]]

\* ShamirSecretSharing._evaluate_polynomial: Horner's method over
\* reversed(coefficients), from coefficient number k down to the first
RECURSIVE horner(_, _, _, _, _)
horner(coefficients_, k, x, result, prime) ==
    IF k = 0 THEN result
    ELSE horner(coefficients_, k - 1, x, (result * x + coefficients_[k]) % prime, prime)

\* _evaluate_polynomial iterating over coefficients instead of reversed(coefficients)
RECURSIVE horner_forward(_, _, _, _, _)
horner_forward(coefficients_, k, x, result, prime) ==
    IF k > Len(coefficients_) THEN result
    ELSE horner_forward(coefficients_, k + 1, x,
                        (result * x + coefficients_[k]) % prime, prime)

_evaluate_polynomial_forward(coefficients_, x, prime) ==
    horner_forward(coefficients_, 1, x, 0, prime)

_evaluate_polynomial(coefficients_, x, prime) ==
    horner(coefficients_, Len(coefficients_), x, 0, prime)

\* generate_shares evaluating the polynomial at 0 .. total_shares - 1
generate_shares_from_zero(secret_, random_coefficients, sh) ==
    IF secret_ >= sh.prime THEN Raise("ValueError")
    ELSE LET coefficients_ == <<secret_>> \o random_coefficients
         IN  Return([i \in 1..sh.total_shares |->
                        <<i - 1, _evaluate_polynomial(coefficients_, i - 1, sh.prime)>>])

\* generate_shares sharing the secret reduced mod prime instead of raising
generate_shares_reducing(secret_, random_coefficients, sh) ==
    LET coefficients_ == <<secret_ % sh.prime>> \o random_coefficients
    IN  Return([i \in 1..sh.total_shares |->
                   <<i, _evaluate_polynomial(coefficients_, i, sh.prime)>>])

\* ShamirSecretSharing.generate_shares, for the random coefficients it drew
generate_shares(secret_, random_coefficients, sh) ==
    IF secret_ >= sh.prime THEN Raise("ValueError")
    ELSE LET coefficients_ == <<secret_>> \o random_coefficients
         IN  Return([i \in 1..sh.total_shares |->
                        <<i, _evaluate_polynomial(coefficients_, i, sh.prime)>>])

\* extended_gcd of ShamirSecretSharing._mod_inverse: <<gcd, x, y>>
RECURSIVE extended_gcd(_, _)
extended_gcd(a, b) ==
    IF a = 0 THEN <<b, 0, 1>>
    ELSE LET rec == extended_gcd(b % a, a)
         IN  <<rec[1], rec[3] - (b \div a) * rec[2], rec[2]>>

\* ShamirSecretSharing._mod_inverse
_mod_inverse(a, prime) ==
    LET res == extended_gcd(a, prime)
    IN  IF res[1] # 1 THEN Raise("ValueError")
        ELSE Return(((res[2] % prime) + prime) % prime)

\* the inner loop of reconstruct_secret for share i: <<numerator, denominator>>
\* after the shares j .. Len(shares)
RECURSIVE lagrange_loop(_, _, _, _, _, _)
lagrange_loop(shares_, i, j, numerator, denominator, prime) ==
    IF j > Len(shares_) THEN <<numerator, denominator>>
    ELSE IF i = j THEN lagrange_loop(shares_, i, j + 1, numerator, denominator, prime)
    ELSE lagrange_loop(shares_, i, j + 1,
                       (numerator * (-(shares_[j][1]))) % prime,
                       (denominator * (shares_[i][1] - shares_[j][1])) % prime,
                       prime)

\* the outer loop of reconstruct_secret, from share i on
RECURSIVE interpolate(_, _, _, _)
interpolate(shares_, i, secret_, prime) ==
    IF i > Len(shares_) THEN Return(secret_)
    ELSE LET nd  == lagrange_loop(shares_, i, 1, 1, 1, prime)
             inv == _mod_inverse(nd[2], prime)
         IN  IF inv.error # "none" THEN Raise(inv.error)
             ELSE LET lagrange_coeff == (nd[1] * inv.value) % prime
                  IN  interpolate(shares_, i + 1,
                                  (secret_ + shares_[i][2] * lagrange_coeff) % prime,
                                  prime)

\* reconstruct_secret interpolating whatever it is given, without the length check
reconstruct_secret_unchecked(shares_, sh) ==
    interpolate(SubSeq(shares_, 1, Min(Len(shares_), sh.threshold)), 1, 0, sh.prime)

\* reconstruct_secret interpolating all the shares it is given
reconstruct_secret_untruncated(shares_, sh) ==
    IF Len(shares_) < sh.threshold THEN Raise("ValueError")
    ELSE interpolate(shares_, 1, 0, sh.prime)

\* ShamirSecretSharing.reconstruct_secret
reconstruct_secret(shares_, sh) ==
    IF Len(shares_) < sh.threshold THEN Raise("ValueError")
    ELSE interpolate(SubSeq(shares_, 1, sh.threshold), 1, 0, sh.prime)

\* ShamirSecretSharing.verify_share; any exception of the reconstruction
\* makes it return False
verify_share(share_, other_shares, sh) ==
    IF Len(other_shares) < sh.threshold - 1 THEN TRUE
    ELSE LET rec == reconstruct_secret(other_shares, sh)
         IN  IF rec.error # "none" THEN FALSE
             ELSE _evaluate_polynomial(<<rec.value>>, share_[1], sh.prime) = share_[2]

----------------------------------------------------------------------------
(* paillier.py: ThresholdPaillier *)

\* ThresholdPaillier.__init__, for a threshold that is given
ThresholdPaillier(total_trustees, threshold) ==
    IF threshold > total_trustees THEN Raise("ValueError")
    ELSE [error |-> "none",
          value |-> [total_trustees |-> total_trustees, threshold |-> threshold]]

\* ThresholdPaillier.generate_distributed_keys, for the 256-bit prime that
\* ShamirSecretSharing drew and the coefficients that generate_shares drew
generate_distributed_keys(kp, tp, prime, random_coefficients) ==
    LET sh == ShamirSecretSharing(tp.total_trustees, tp.threshold, prime)
    IN  IF sh.error # "none" THEN Raise(sh.error)
        ELSE generate_shares(kp.lambda_val, random_coefficients, sh.value)

\* ThresholdPaillier.partial_decrypt
partial_decrypt(ciphertext_, private_key_share, kp) ==
    pow(ciphertext_, private_key_share, kp.n * kp.n)

\* the loop of combine_partial_decryptions
RECURSIVE combine_loop(_, _, _)
combine_loop(combined, rest, n_squared) ==
    IF rest = <<>> THEN combined
    ELSE combine_loop((combined * Head(rest)) % n_squared, Tail(rest), n_squared)

\* combine_partial_decryptions starting its product at 0
combine_partial_decryptions_from_zero(partial_results_, kp) ==
    LET combined   == combine_loop(0, partial_results_, kp.n * kp.n)
        l_combined == (combined - 1) \div kp.n
    IN  (l_combined * kp.mu) % kp.n

\* ThresholdPaillier.combine_partial_decryptions
combine_partial_decryptions(partial_results_, kp) ==
    LET combined   == combine_loop(1, partial_results_, kp.n * kp.n)
        l_combined == (combined - 1) \div kp.n
    IN  (l_combined * kp.mu) % kp.n

\* shamir.py, ThresholdDecryption.combine_partial_decryptions: it is handed
\* the public key and returns l_combined
ThresholdDecryption_combine_partial_decryptions(partial_results_, public_key) ==
    LET n_         == public_key[1]
        combined   == combine_loop(1, partial_results_, n_ * n_)
        l_combined == (combined - 1) \div n_
    IN  l_combined

----------------------------------------------------------------------------
(* Calls on the cipher, in the order of the repository's tests: a key pair  *)
(* is generated, one or two plaintexts are encrypted, the ciphertexts are   *)
(* combined, and the outcome is decrypted.                                   *)

\* plaintexts handed to encrypt: small ones, the largest ones, and invalid ones
Messages(n_) == (-1 .. MaxMessage) \cup ((n_ - 2) .. (n_ + 1))

Init ==
    /\ key_pair = NoKey
    /\ message = None
    /\ c1 = None /\ m1 = None /\ r1 = None
    /\ c2 = None /\ m2 = None /\ r2 = None
    /\ scalar = None
    /\ ciphertext = None
    /\ decrypted = None
    /\ op = "init"
    /\ error = "none"
    /\ encrypted_votes = <<>>
    /\ votes = <<>>
    /\ accumulated = <<>>
    /\ shamir = NoShamir
    /\ secret = None
    /\ coefficients = <<>>
    /\ shares = <<>>
    /\ supplied = <<>>
    /\ reconstructed = None
    /\ threshold_paillier = NoThreshold
    /\ partial_results = <<>>
    /\ used_shares = <<>>
    /\ td_combined = None
    /\ election = [public_key_n |-> None, public_key_g |-> None,
                   private_key_lambda |-> None, private_key_mu |-> None]
    /\ on_chain = FALSE
    /\ stored_votes = <<>>
    /\ election_result = NoResult
    /\ tally_key = "none"
    /\ pool = <<>>
    /\ checked_vote = None
    /\ share = <<>>
    /\ verified = FALSE

\* paillier.generate_key_pair()
GenerateKeyPair ==
    /\ key_pair = NoKey
    /\ \E key_size \in KeySizes \cup DegenerateKeySizes :
         \E p \in getPrime(key_size \div 2), q \in getPrime(key_size \div 2) :
            /\ p # q
            /\ LET res == generate_key_pair(p, q)
               IN  /\ error' = res.error
                   /\ key_pair' = IF res.error = "none" THEN res.value ELSE NoKey
    /\ op' = "generate_key_pair"
    /\ UNCHANGED <<verifyVars, cipherVars, ciphertext, decrypted, tallyVars, shamirVars, thresholdVars, electionVars>>

\* c1 = paillier.encrypt(message, key_pair.public_key)
Encrypt1 ==
    /\ key_pair # NoKey
    /\ c1 = None /\ decrypted = None
    /\ \E msg \in Messages(key_pair.n), r0 \in draws_of_r(key_pair.n) :
         \E r \in random_r(r0, key_pair.n) :
            LET res == encrypt(msg, public_key_of(key_pair), r)
            IN  /\ message' = msg
                /\ error' = res.error
                /\ ciphertext' = res.value
                /\ IF res.error = "none"
                   THEN c1' = res.value /\ m1' = msg /\ r1' = r
                   ELSE UNCHANGED <<c1, m1, r1>>
    /\ op' = "encrypt"
    /\ decrypted' = None
    /\ UNCHANGED <<verifyVars, key_pair, c2, m2, r2, scalar, tallyVars, shamirVars, thresholdVars, electionVars>>

\* c2 = vote_encryption.encrypt_vote(message, key_pair.public_key)
Encrypt2 ==
    /\ c1 # None /\ c2 = None
    /\ op = "encrypt" /\ decrypted = None
    /\ \E msg \in Messages(key_pair.n), r0 \in draws_of_r(key_pair.n) :
         \E r \in random_r(r0, key_pair.n) :
            LET res == encrypt_vote(msg, public_key_of(key_pair), r)
            IN  /\ message' = msg
                /\ error' = res.error
                /\ ciphertext' = res.value
                /\ IF res.error = "none"
                   THEN c2' = res.value /\ m2' = msg /\ r2' = r
                   ELSE UNCHANGED <<c2, m2, r2>>
    /\ op' = "encrypt"
    /\ decrypted' = None
    /\ UNCHANGED <<verifyVars, key_pair, c1, m1, r1, scalar, tallyVars, shamirVars, thresholdVars, electionVars>>

\* c_sum = paillier.add_ciphertexts(c1, c2, key_pair.public_key)
AddCiphertexts ==
    /\ c1 # None /\ c2 # None
    /\ op = "encrypt" /\ decrypted = None
    /\ ciphertext' = add_ciphertexts(c1, c2, public_key_of(key_pair))
    /\ op' = "add_ciphertexts"
    /\ error' = "none"
    /\ decrypted' = None
    /\ UNCHANGED <<verifyVars, key_pair, cipherVars, tallyVars, shamirVars, thresholdVars, electionVars>>

\* product = paillier.multiply_ciphertext(c1, scalar, key_pair.public_key)
MultiplyCiphertext ==
    /\ c1 # None
    /\ op = "encrypt" /\ decrypted = None
    /\ \E k \in 0..MaxScalar :
         /\ scalar' = k
         /\ ciphertext' = multiply_ciphertext(c1, k, public_key_of(key_pair))
    /\ op' = "multiply_ciphertext"
    /\ error' = "none"
    /\ decrypted' = None
    /\ UNCHANGED <<verifyVars, key_pair, message, c1, m1, r1, c2, m2, r2, tallyVars, shamirVars, thresholdVars, electionVars>>

\* decrypted = paillier.decrypt(ciphertext, key_pair)
Decrypt ==
    /\ ciphertext # None
    /\ decrypted = None
    /\ decrypted' = decrypt(ciphertext, key_pair)
    /\ UNCHANGED <<verifyVars, key_pair, cipherVars, ciphertext, op, error, tallyVars, shamirVars, thresholdVars, electionVars>>

Next ==
    \/ GenerateKeyPair
    \/ Encrypt1
    \/ Encrypt2
    \/ AddCiphertexts
    \/ MultiplyCiphertext
    \/ Decrypt

Spec == Init /\ [][Next]_vars

----------------------------------------------------------------------------
(* Verification of encrypted votes: a key pair is generated, a plaintext   *)
(* may be encrypted, and an integer is handed to verify_vote_encryption     *)

\* integers handed to verify_vote_encryption: the ciphertext just produced,
\* small integers (negative ones, 0, multiples of the small prime factors of
\* n), multiples of n, and the integers around n^2
CheckedVotes(n_, ciphertext_) ==
    (-2 .. MaxCheckedVote) \cup {n_, n_ * n_ - n_}
        \cup ((n_ * n_ - 2) .. (n_ * n_ + 2))
        \cup (IF ciphertext_ = None THEN {} ELSE {ciphertext_})

\* verified = vote_encryption.verify_vote_encryption(checked_vote, key_pair.public_key)
VerifyVoteEncryption ==
    /\ key_pair # NoKey
    /\ op \in {"generate_key_pair", "encrypt"}
    /\ \E c \in CheckedVotes(key_pair.n, ciphertext) :
         /\ checked_vote' = c
         /\ verified' = verify_vote_encryption(c, public_key_of(key_pair))
    /\ op' = "verify_vote_encryption"
    /\ error' = "none"
    /\ UNCHANGED <<key_pair, cipherVars, ciphertext, decrypted, tallyVars,
                   shamirVars, thresholdVars, electionVars, pool, share>>

NextVerify ==
    \/ GenerateKeyPair
    \/ Encrypt1
    \/ VerifyVoteEncryption

SpecVerify == Init /\ [][NextVerify]_vars

----------------------------------------------------------------------------
(* Tally: votes are encrypted one by one, aggregated and decrypted *)
(* (test_vote_encryption_and_aggregation)                          *)

\* vote values: no, yes, and the largest plaintext, which makes the sum wrap
VoteValues(n_) == {0, 1, n_ - 1}

\* the draws of random.randint(1, n - 1) in the encrypt_vote calls of a
\* tally, cut at MaxVoteRand
vote_draws_of_r(n_) == randint(1, Min(n_ - 1, MaxVoteRand))

\* encrypted_votes.append(vote_encryption.encrypt_vote(vote, key_pair.public_key))
EncryptVote ==
    /\ key_pair # NoKey
    /\ op \in {"generate_key_pair", "encrypt_vote", "accumulate"}
    /\ Len(encrypted_votes) < MaxVotes
    /\ \E vote \in VoteValues(key_pair.n), r0 \in vote_draws_of_r(key_pair.n) :
         \E r \in random_r(r0, key_pair.n) \cap vote_draws_of_r(key_pair.n) :
            LET res == encrypt_vote(vote, public_key_of(key_pair), r)
            IN  /\ error' = res.error
                /\ IF res.error = "none"
                   THEN /\ encrypted_votes' = Append(encrypted_votes, res.value)
                        /\ votes' = Append(votes, vote)
                   ELSE UNCHANGED <<encrypted_votes, votes>>
    /\ op' = "encrypt_vote"
    /\ UNCHANGED <<verifyVars, key_pair, cipherVars, ciphertext, decrypted, accumulated, shamirVars, thresholdVars, electionVars>>

\* aggregated = vote_encryption.aggregate_votes(encrypted_votes, key_pair.public_key)
AggregateVotes ==
    /\ key_pair # NoKey
    /\ op \in {"generate_key_pair", "encrypt_vote"}
    /\ ciphertext' = aggregate_votes(encrypted_votes, public_key_of(key_pair))
    /\ op' = "aggregate_votes"
    /\ error' = "none"
    /\ UNCHANGED <<verifyVars, key_pair, cipherVars, decrypted, tallyVars, shamirVars, thresholdVars, electionVars>>

NextTally ==
    \/ GenerateKeyPair
    \/ EncryptVote
    \/ AggregateVotes
    \/ Decrypt

SpecTally == Init /\ [][NextTally]_vars

----------------------------------------------------------------------------
(* Incremental tally: ballots arrive one at a time, and a single writer     *)
(* folds the ballots that have arrived into its accumulator, in any order    *)

\* accumulator = paillier.add_ciphertexts(accumulator, ballot, key_pair.public_key);
\* the first ballot becomes the accumulator, as in aggregate_votes
Accumulate ==
    /\ key_pair # NoKey
    /\ op \in {"encrypt_vote", "accumulate"}
    /\ \E i \in (1..Len(encrypted_votes)) \ Range(accumulated) :
         /\ ciphertext' = IF accumulated = <<>> THEN encrypted_votes[i]
                          ELSE add_ciphertexts(ciphertext, encrypted_votes[i],
                                               public_key_of(key_pair))
         /\ accumulated' = Append(accumulated, i)
    /\ op' = "accumulate"
    /\ error' = "none"
    /\ UNCHANGED <<verifyVars, key_pair, cipherVars, decrypted, encrypted_votes, votes,
                   shamirVars, thresholdVars, electionVars>>

NextIncremental ==
    \/ GenerateKeyPair
    \/ EncryptVote
    \/ Accumulate

SpecIncremental == Init /\ [][NextIncremental]_vars

----------------------------------------------------------------------------
(* Ciphertexts obtained from ciphertexts: every ciphertext that encrypt,    *)
(* add_ciphertexts, multiply_ciphertext or aggregate_votes returns joins    *)
(* the pool, and the operands of the later calls are taken from the pool    *)

\* pool.append(paillier.encrypt(message, key_pair.public_key))
PoolEncrypt ==
    /\ key_pair # NoKey
    /\ Len(pool) < MaxPool
    /\ \E msg \in VoteValues(key_pair.n), r0 \in vote_draws_of_r(key_pair.n) :
         \E r \in random_r(r0, key_pair.n) \cap vote_draws_of_r(key_pair.n) :
            LET res == encrypt(msg, public_key_of(key_pair), r)
            IN  /\ message' = msg
                /\ error' = res.error
                /\ ciphertext' = res.value
                /\ pool' = IF res.error = "none" THEN Append(pool, res.value) ELSE pool
    /\ op' = "encrypt"
    /\ UNCHANGED <<key_pair, c1, m1, r1, c2, m2, r2, scalar, decrypted, tallyVars,
                   shamirVars, thresholdVars, electionVars, checked_vote, share,
                   verified>>

\* pool.append(paillier.add_ciphertexts(pool[i], pool[j], key_pair.public_key))
PoolAddCiphertexts ==
    /\ Len(pool) < MaxPool
    /\ \E i \in 1..Len(pool), j \in 1..Len(pool) :
         /\ ciphertext' = add_ciphertexts(pool[i], pool[j], public_key_of(key_pair))
         /\ pool' = Append(pool, ciphertext')
    /\ op' = "add_ciphertexts"
    /\ error' = "none"
    /\ UNCHANGED <<key_pair, cipherVars, decrypted, tallyVars, shamirVars,
                   thresholdVars, electionVars, checked_vote, share, verified>>

\* pool.append(paillier.multiply_ciphertext(pool[i], scalar, key_pair.public_key))
PoolMultiplyCiphertext ==
    /\ Len(pool) < MaxPool
    /\ \E i \in 1..Len(pool), k \in 0..MaxScalar :
         /\ scalar' = k
         /\ ciphertext' = multiply_ciphertext(pool[i], k, public_key_of(key_pair))
         /\ pool' = Append(pool, ciphertext')
    /\ op' = "multiply_ciphertext"
    /\ error' = "none"
    /\ UNCHANGED <<key_pair, message, c1, m1, r1, c2, m2, r2, decrypted, tallyVars,
                   shamirVars, thresholdVars, electionVars, checked_vote, share,
                   verified>>

\* pool.append(vote_encryption.aggregate_votes(pool[i:j], key_pair.public_key)),
\* for a non-empty slice of the pool
PoolAggregateVotes ==
    /\ Len(pool) < MaxPool
    /\ \E i \in 1..Len(pool) :
         \E j \in i..Len(pool) :
            /\ ciphertext' = aggregate_votes(SubSeq(pool, i, j), public_key_of(key_pair))
            /\ pool' = Append(pool, ciphertext')
    /\ op' = "aggregate_votes"
    /\ error' = "none"
    /\ UNCHANGED <<key_pair, cipherVars, decrypted, tallyVars, shamirVars,
                   thresholdVars, electionVars, checked_vote, share, verified>>

NextPool ==
    \/ GenerateKeyPair
    \/ PoolEncrypt
    \/ PoolAddCiphertexts
    \/ PoolMultiplyCiphertext
    \/ PoolAggregateVotes

SpecPool == Init /\ [][NextPool]_vars

----------------------------------------------------------------------------
(* Secret sharing: an instance is constructed, a secret is shared, and the *)
(* secret is reconstructed from a list of the shares                        *)

\* the sharing prime: getPrime(256) in the code, here a small prime that,
\* like a 256-bit one, exceeds the number of shares
SharingPrimes == {5, 7}

\* the lists of distinct shares a caller can hand in: every choice of shares
\* of the generated list, in every order
RECURSIVE ListsOf(_, _)
ListsOf(S, k) ==
    IF k = 0 THEN {<<>>}
    ELSE {Append(l, x) : l \in ListsOf(S, k - 1), x \in S} 

SharesLists(shares_) ==
    UNION {{l \in ListsOf(Range(shares_), k) : Cardinality(Range(l)) = k} :
              k \in 0..Len(shares_)}

\* shamir = ShamirSecretSharing(total_shares, threshold, prime)
NewShamir ==
    /\ shamir = NoShamir
    /\ \E total \in 1..MaxShares, threshold \in 0..MaxThreshold, prime \in SharingPrimes :
         /\ total < prime
         /\ LET res == ShamirSecretSharing(total, threshold, prime)
            IN  /\ error' = res.error
                /\ shamir' = IF res.error = "none" THEN res.value ELSE NoShamir
    /\ op' = "ShamirSecretSharing"
    /\ UNCHANGED <<verifyVars, key_pair, cipherVars, ciphertext, decrypted, tallyVars,
                   thresholdVars, electionVars,
                   secret, coefficients, shares, supplied, reconstructed>>

\* the draws of random.randint(1, self.prime - 1) in generate_shares, cut at
\* MaxCoefficient
draws_of_coefficient(prime) == randint(1, Min(prime - 1, MaxCoefficient))

\* shares = shamir.generate_shares(secret)
GenerateShares ==
    /\ shamir # NoShamir
    /\ shares = <<>>
    /\ \E s \in 0..shamir.prime :
         \E coeffs \in [1..(IF shamir.threshold > 1 THEN shamir.threshold - 1 ELSE 0)
                            -> draws_of_coefficient(shamir.prime)] :
            LET res == generate_shares(s, coeffs, shamir)
            IN  /\ secret' = s
                /\ error' = res.error
                /\ IF res.error = "none"
                   THEN shares' = res.value /\ coefficients' = coeffs
                   ELSE UNCHANGED <<shares, coefficients>>
    /\ op' = "generate_shares"
    /\ UNCHANGED <<verifyVars, key_pair, cipherVars, ciphertext, decrypted, tallyVars,
                   thresholdVars, electionVars,
                   shamir, supplied, reconstructed>>

\* reconstruct_secret cutting the caller's list down to its first threshold
\* shares, for a caller that hands in the list it got from generate_shares
ReconstructSecret_truncating ==
    /\ shares # <<>>
    /\ op = "generate_shares"
    /\ LET res == reconstruct_secret(shares, shamir)
       IN  /\ supplied' = shares
           /\ error' = res.error
           /\ reconstructed' = res.value
           /\ shares' = SubSeq(shares, 1, Min(Len(shares), shamir.threshold))
    /\ op' = "reconstruct_secret"
    /\ UNCHANGED <<verifyVars, key_pair, cipherVars, ciphertext, decrypted, tallyVars,
                   thresholdVars, electionVars, shamir, secret, coefficients>>

\* reconstructed = shamir.reconstruct_secret(supplied)
ReconstructSecret ==
    /\ shares # <<>>
    /\ op = "generate_shares"
    /\ \E l \in SharesLists(shares) :
         LET res == reconstruct_secret(l, shamir)
         IN  /\ supplied' = l
             /\ error' = res.error
             /\ reconstructed' = res.value
    /\ op' = "reconstruct_secret"
    /\ UNCHANGED <<verifyVars, key_pair, cipherVars, ciphertext, decrypted, tallyVars,
                   thresholdVars, electionVars,
                   shamir, secret, coefficients, shares>>

NextShamir ==
    \/ NewShamir
    \/ GenerateShares
    \/ ReconstructSecret

SpecShamir == Init /\ [][NextShamir]_vars

----------------------------------------------------------------------------
(* Verification of shares: an instance is constructed, a secret is shared, *)
(* and a share is verified against a list of the other shares               *)

\* the shares handed to verify_share: the generated ones and, for each of
\* them, a forged one with the same id and the next value
CheckedShares(shares_, prime) ==
    Range(shares_) \cup {<<sh_[1], (sh_[2] + 1) % prime>> : sh_ \in Range(shares_)}

\* the generated shares with an id other than that of share_
OtherShares(shares_, share_) ==
    SelectSeq(shares_, LAMBDA sh_ : sh_[1] # share_[1])

\* verified = shamir.verify_share(share, other_shares)
VerifyShare ==
    /\ shares # <<>>
    /\ op = "generate_shares"
    /\ \E share_ \in CheckedShares(shares, shamir.prime) :
         \E l \in SharesLists(OtherShares(shares, share_)) :
            /\ share' = share_
            /\ supplied' = l
            /\ verified' = verify_share(share_, l, shamir)
    /\ op' = "verify_share"
    /\ error' = "none"
    /\ UNCHANGED <<key_pair, cipherVars, ciphertext, decrypted, tallyVars,
                   thresholdVars, electionVars, pool, checked_vote,
                   shamir, secret, coefficients, shares, reconstructed>>

NextVerifyShare ==
    \/ NewShamir
    \/ GenerateShares
    \/ VerifyShare

SpecVerifyShare == Init /\ [][NextVerifyShare]_vars

----------------------------------------------------------------------------
(* Threshold decryption: the private key is shared among the trustees, a    *)
(* plaintext is encrypted, trustees decrypt partially, the partial results  *)
(* are combined                                                              *)

\* the prime of the sharing instance made by generate_distributed_keys:
\* getPrime(256) in the code, here a prime above the lambda of the 6-bit keys
\* and below the lambda of the 8-bit keys
KeySharingPrimes == {13}

\* threshold_paillier = ThresholdPaillier(total_trustees, threshold)
NewThresholdPaillier ==
    /\ key_pair # NoKey
    /\ threshold_paillier = NoThreshold
    /\ op = "generate_key_pair"
    /\ \E total \in 1..MaxTrustees, threshold \in 1..(MaxTrustees + 1) :
         LET res == ThresholdPaillier(total, threshold)
         IN  /\ error' = res.error
             /\ threshold_paillier' = IF res.error = "none" THEN res.value
                                      ELSE NoThreshold
    /\ op' = "ThresholdPaillier"
    /\ UNCHANGED <<verifyVars, key_pair, cipherVars, ciphertext, decrypted, tallyVars,
                   shamirVars, partial_results, used_shares, td_combined, electionVars>>

\* shares = threshold_paillier.generate_distributed_keys(key_pair)
GenerateDistributedKeys ==
    /\ threshold_paillier # NoThreshold
    /\ op = "ThresholdPaillier"
    /\ \E prime \in KeySharingPrimes :
         \E coeffs \in [1..(threshold_paillier.threshold - 1) -> randint(1, prime - 1)] :
            LET res == generate_distributed_keys(key_pair, threshold_paillier,
                                                 prime, coeffs)
            IN  /\ error' = res.error
                /\ shamir' = [total_shares |-> threshold_paillier.total_trustees,
                              threshold |-> threshold_paillier.threshold,
                              prime |-> prime]
                /\ secret' = key_pair.lambda_val
                /\ IF res.error = "none"
                   THEN shares' = res.value /\ coefficients' = coeffs
                   ELSE UNCHANGED <<shares, coefficients>>
    /\ op' = "generate_distributed_keys"
    /\ UNCHANGED <<verifyVars, key_pair, cipherVars, ciphertext, decrypted, tallyVars,
                   supplied, reconstructed, thresholdVars, electionVars>>

\* partial_results.append(
\*     threshold_paillier.partial_decrypt(ciphertext, shares[i][1], key_pair))
PartialDecrypt ==
    /\ shares # <<>>
    /\ ciphertext # None
    /\ op \in {"encrypt", "partial_decrypt"}
    /\ \E i \in (1..Len(shares)) \ Range(used_shares) :
         /\ partial_results' =
                Append(partial_results, partial_decrypt(ciphertext, shares[i][2], key_pair))
         /\ used_shares' = Append(used_shares, i)
    /\ op' = "partial_decrypt"
    /\ error' = "none"
    /\ UNCHANGED <<verifyVars, key_pair, cipherVars, ciphertext, decrypted, tallyVars,
                   shamirVars, threshold_paillier, td_combined, electionVars>>

\* decrypted = threshold_paillier.combine_partial_decryptions(partial_results, key_pair)
CombinePartialDecryptions ==
    /\ shares # <<>>
    /\ ciphertext # None
    /\ op \in {"encrypt", "partial_decrypt"}
    /\ decrypted' = combine_partial_decryptions(partial_results, key_pair)
    /\ op' = "combine_partial_decryptions"
    /\ error' = "none"
    /\ UNCHANGED <<verifyVars, key_pair, cipherVars, ciphertext, tallyVars, shamirVars,
                   thresholdVars, electionVars>>

\* td_combined = threshold_decryption.combine_partial_decryptions(
\*     partial_results, key_pair.public_key)
ThresholdDecryptionCombine ==
    /\ shares # <<>>
    /\ ciphertext # None
    /\ td_combined = None
    /\ op \in {"encrypt", "partial_decrypt", "combine_partial_decryptions"}
    /\ td_combined' = ThresholdDecryption_combine_partial_decryptions(
                          partial_results, public_key_of(key_pair))
    /\ op' = "ThresholdDecryption.combine_partial_decryptions"
    /\ error' = "none"
    /\ UNCHANGED <<verifyVars, key_pair, cipherVars, ciphertext, decrypted, tallyVars,
                   shamirVars, threshold_paillier, partial_results, used_shares,
                   electionVars>>

NextThreshold ==
    \/ GenerateKeyPair
    \/ NewThresholdPaillier
    \/ GenerateDistributedKeys
    \/ Encrypt1
    \/ PartialDecrypt
    \/ CombinePartialDecryptions
    \/ ThresholdDecryptionCombine

SpecThreshold == Init /\ [][NextThreshold]_vars

----------------------------------------------------------------------------
(* elections/admin.py and api/views.py: an election is deployed, votes are *)
(* cast, and the admin decrypts the tally                                   *)

\* the candidates of the election, by id, in their order
Candidates == <<1, 2>>
\* the candidate_id values a request can carry
RequestedCandidates == {1, 2, 3}

\* hex(c)[2:]: the hexadecimal digits of c >= 0, most significant first
RECURSIVE hex(_)
hex(c) == IF c < 16 THEN <<c>> ELSE Append(hex(c \div 16), c % 16)

\* cast_vote of api/views.py: the string stored as "encrypted_vote", that is
\* '0x' + bytes.fromhex(padded hex).hex()
encrypted_vote_hexstr(encrypted_vote) ==
    LET encrypted_vote_hex == hex(encrypted_vote)
        padded == IF Len(encrypted_vote_hex) % 2 # 0
                  THEN <<0>> \o encrypted_vote_hex
                  ELSE encrypted_vote_hex
    IN  [prefix |-> "0x", digits |-> padded]

\* int(digits, base), a ValueError when a digit is not below the base
RECURSIVE int_of(_, _, _)
int_of(digits, base, acc) ==
    IF digits = <<>> THEN Return(acc)
    ELSE IF Head(digits) >= base THEN Raise("ValueError")
    ELSE int_of(Tail(digits), base, acc * base + Head(digits))

\* decrypt_tally: the integer read from the "encrypted_vote" string
parse_encrypted_vote(enc) ==
    IF enc.prefix = "0x" THEN int_of(enc.digits, 16, 0)
    ELSE int_of(enc.digits, 10, 0)

all_keys_set(e) ==
    /\ e.public_key_n # None /\ e.public_key_g # None
    /\ e.private_key_lambda # None /\ e.private_key_mu # None

\* decrypt_tally: the parsed ciphertexts of the votes stored for a candidate;
\* a vote whose string does not parse is skipped
RECURSIVE candidate_votes_of(_, _)
candidate_votes_of(votes_, candidate) ==
    IF votes_ = <<>> THEN <<>>
    ELSE LET v    == Head(votes_)
             rest == candidate_votes_of(Tail(votes_), candidate)
             enc  == parse_encrypted_vote(v.encrypted_vote)
         IN  IF v.candidate_id = candidate /\ enc.error = "none"
             THEN <<enc.value>> \o rest
             ELSE rest

\* reduce(lambda x, y: (x * y) % n_squared, candidate_votes)
RECURSIVE reduce_product(_, _, _)
reduce_product(x, rest, n_squared) ==
    IF rest = <<>> THEN x
    ELSE reduce_product((x * Head(rest)) % n_squared, Tail(rest), n_squared)

\* decrypt_tally: the tally of one candidate under the key pair kp
candidate_tally(votes_, candidate, kp) ==
    LET candidate_votes == candidate_votes_of(votes_, candidate)
    IN  IF candidate_votes # <<>>
        THEN decrypt(reduce_product(Head(candidate_votes), Tail(candidate_votes),
                                    kp.n * kp.n), kp)
        ELSE 0

\* decrypt_tally: the ElectionResult row it saves
tally_result(votes_, kp) ==
    LET candidate_results ==
            [i \in 1..Len(Candidates) |-> candidate_tally(votes_, Candidates[i], kp)]
    IN  [candidate_results |-> candidate_results,
         total_votes |-> sum(candidate_results)]

\* admin action deploy_on_chain
DeployOnChain ==
    /\ \E success \in BOOLEAN :
         /\ on_chain' = (on_chain \/ success)
         /\ error' = IF success THEN "none" ELSE "deploy failed"
    /\ IF ~all_keys_set(election)
       THEN \E key_size \in KeySizes :
              \E p \in getPrime(key_size \div 2), q \in getPrime(key_size \div 2) :
                 /\ p # q
                 /\ LET kp == generate_key_pair(p, q).value
                    IN  election' = [public_key_n       |-> kp.n,
                                     public_key_g       |-> kp.g,
                                     private_key_lambda |-> kp.lambda_val,
                                     private_key_mu     |-> kp.mu]
       ELSE UNCHANGED election
    /\ op' = "deploy_on_chain"
    /\ UNCHANGED <<verifyVars, key_pair, cipherVars, ciphertext, decrypted, tallyVars,
                   shamirVars, thresholdVars, stored_votes, election_result,
                   tally_key>>

\* POST vote/ handled by cast_vote of api/views.py
CastVote ==
    /\ on_chain
    /\ Len(stored_votes) < MaxBallots
    /\ IF election.public_key_n = None \/ election.public_key_g = None
       THEN \* int(None) raises a TypeError, answered with a 500
            /\ UNCHANGED stored_votes
            /\ error' = "500"
       ELSE \E candidate_id \in RequestedCandidates, success \in BOOLEAN :
              \E r0 \in draws_of_r(election.public_key_n) :
                \E r \in random_r(r0, election.public_key_n) :
                  LET public_key == <<election.public_key_n, election.public_key_g>>
                      res == encrypt_vote(candidate_id, public_key, r)
                  IN  IF res.error = "none" /\ success
                      THEN /\ stored_votes' = Append(stored_votes,
                                 [candidate_id   |-> candidate_id,
                                  encrypted_vote |-> encrypted_vote_hexstr(res.value),
                                  cast_value     |-> res.value,
                                  cast_n         |-> public_key[1]])
                           /\ error' = "none"
                      ELSE /\ UNCHANGED stored_votes
                           /\ error' = IF res.error # "none" THEN "500" ELSE "400"
    /\ op' = "cast_vote"
    /\ UNCHANGED <<verifyVars, key_pair, cipherVars, ciphertext, decrypted, tallyVars,
                   shamirVars, thresholdVars, election, on_chain, election_result,
                   tally_key>>

\* cast_vote of elections/views.py: the string stored as "encrypted_vote", that
\* is hex(encrypted_vote)[2:], with no prefix and no padding
encrypted_vote_hex(encrypted_vote) ==
    [prefix |-> "", digits |-> hex(encrypted_vote)]

\* management command create_test_election: the election goes on chain with
\* the key fields it has
CreateTestElection ==
    /\ \E success \in BOOLEAN : on_chain' = (on_chain \/ success)
    /\ op' = "create_test_election"
    /\ error' = "none"
    /\ UNCHANGED <<verifyVars, key_pair, cipherVars, ciphertext, decrypted, tallyVars,
                   shamirVars, thresholdVars, election, stored_votes, election_result,
                   tally_key>>

\* POST vote/ handled by cast_vote of elections/views.py
ElectionsCastVote ==
    /\ on_chain
    /\ Len(stored_votes) < MaxBallots
    /\ \E candidate_id \in RequestedCandidates, success \in BOOLEAN, key_size \in KeySizes :
         \E p \in getPrime(key_size \div 2), q \in getPrime(key_size \div 2) :
           /\ p # q
           /\ LET kp == generate_key_pair(p, q).value
              IN  \E r0 \in draws_of_r(kp.n) :
                    \E r \in random_r(r0, kp.n) :
                      LET res == encrypt_vote(candidate_id, public_key_of(kp), r)
                      IN  IF res.error = "none" /\ success
                          THEN /\ stored_votes' = Append(stored_votes,
                                     [candidate_id   |-> candidate_id,
                                      encrypted_vote |-> encrypted_vote_hex(res.value),
                                      cast_value     |-> res.value,
                                      cast_n         |-> kp.n])
                               /\ error' = "none"
                          ELSE /\ UNCHANGED stored_votes
                               /\ error' = IF res.error # "none" THEN "500" ELSE "400"
    /\ op' = "elections.cast_vote"
    /\ UNCHANGED <<verifyVars, key_pair, cipherVars, ciphertext, decrypted, tallyVars,
                   shamirVars, thresholdVars, election, on_chain, election_result,
                   tally_key>>

\* admin action decrypt_tally
DecryptTally ==
    /\ stored_votes # <<>>
    /\ IF all_keys_set(election)
       THEN /\ tally_key' = "stored_private_key"
            /\ election_result' = tally_result(stored_votes,
                   [n |-> election.public_key_n, g |-> election.public_key_g,
                    lambda_val |-> election.private_key_lambda,
                    mu |-> election.private_key_mu])
       ELSE /\ tally_key' = "generated_key_pair"
            /\ \E key_size \in KeySizes :
                 \E p \in getPrime(key_size \div 2), q \in getPrime(key_size \div 2) :
                    /\ p # q
                    /\ election_result' =
                           tally_result(stored_votes, generate_key_pair(p, q).value)
    /\ op' = "decrypt_tally"
    /\ error' = "none"
    /\ UNCHANGED <<verifyVars, key_pair, cipherVars, ciphertext, decrypted, tallyVars,
                   shamirVars, thresholdVars, election, on_chain, stored_votes>>

NextElection ==
    \/ DeployOnChain
    \/ CreateTestElection
    \/ CastVote
    \/ ElectionsCastVote
    \/ DecryptTally

SpecElection == Init /\ [][NextElection]_vars

----------------------------------------------------------------------------
(* Claims *)

\* seq, reordered by the permutation f of its indices
Permuted(seq, f) == [i \in 1..Len(seq) |-> seq[f[i]]]

\* C1: a ciphertext returned by encrypt for a plaintext in [0, n) decrypts to
\* that plaintext under the key pair, whichever r encrypt drew.
C1_RoundTrip ==
    (op = "encrypt" /\ error = "none" /\ decrypted # None) => decrypted = message

C1_Witness ==
    /\ op = "encrypt" /\ error = "none"
    /\ message = key_pair.n - 1 /\ r1 > 1 /\ c2 = None
    /\ decrypted = message

\* C2: the sum ciphertext of an encryption of m1 and an encryption of m2
\* decrypts to (m1 + m2) mod n.
C2_HomomorphicAddition ==
    (op = "add_ciphertexts" /\ decrypted # None) => decrypted = (m1 + m2) % key_pair.n

C2_Witness ==
    /\ op = "add_ciphertexts"
    /\ m1 + m2 >= key_pair.n /\ m1 # m2 /\ r1 # r2
    /\ decrypted = (m1 + m2) % key_pair.n

\* C3: the ciphertext of m raised to a scalar k >= 0 decrypts to (m * k) mod n.
C3_HomomorphicScalar ==
    (op = "multiply_ciphertext" /\ decrypted # None)
        => decrypted = (m1 * scalar) % key_pair.n

C3_Witness ==
    /\ op = "multiply_ciphertext"
    /\ scalar >= 2 /\ m1 * scalar >= key_pair.n /\ r1 > 1
    /\ decrypted = (m1 * scalar) % key_pair.n

\* C4: the aggregate of the encryptions of a non-empty list of votes decrypts
\* to the sum of the votes mod n.
C4_TallyCorrect ==
    (op = "aggregate_votes" /\ votes # <<>> /\ decrypted # None)
        => decrypted = sum(votes) % key_pair.n

C4_Witness ==
    /\ op = "aggregate_votes"
    /\ Len(votes) = 3 /\ sum(votes) >= key_pair.n /\ votes[1] # votes[2]
    /\ decrypted = sum(votes) % key_pair.n

\* C5: add_ciphertexts is commutative and associative on the encrypted votes,
\* and the aggregate of every reordering of a non-empty list of encrypted
\* votes decrypts to the same value as the aggregate of the list.
C5_OrderIrrelevant ==
    (op = "aggregate_votes" /\ encrypted_votes # <<>>) =>
        LET pk == public_key_of(key_pair)
            k  == Len(encrypted_votes)
        IN  /\ \A f \in Permutations(1..k) :
                 decrypt(aggregate_votes(Permuted(encrypted_votes, f), pk), key_pair)
                    = decrypt(ciphertext, key_pair)
            /\ \A i, j \in 1..k :
                 add_ciphertexts(encrypted_votes[i], encrypted_votes[j], pk)
                    = add_ciphertexts(encrypted_votes[j], encrypted_votes[i], pk)
            /\ \A i, j, l \in 1..k :
                 add_ciphertexts(add_ciphertexts(encrypted_votes[i], encrypted_votes[j], pk),
                                 encrypted_votes[l], pk)
                    = add_ciphertexts(encrypted_votes[i],
                                      add_ciphertexts(encrypted_votes[j], encrypted_votes[l], pk),
                                      pk)

C5_Witness ==
    /\ op = "aggregate_votes"
    /\ Len(encrypted_votes) = 3
    /\ encrypted_votes[1] # encrypted_votes[2]
    /\ encrypted_votes[2] # encrypted_votes[3]
    /\ encrypted_votes[1] # encrypted_votes[3]
    /\ votes[1] # votes[3]
    /\ decrypted # None

\* C10: encrypt and encrypt_vote raise an error and return no ciphertext for
\* every message below 0 or not below n.
C10_InvalidPlaintextRejected ==
    (op = "encrypt" /\ (message < 0 \/ message >= key_pair.n))
        => (error = "ValueError" /\ ciphertext = None /\ decrypted = None)

C10_Witness ==
    /\ op = "encrypt" /\ message = key_pair.n /\ error = "ValueError"
    /\ ciphertext = None /\ c1 # None /\ c2 = None

\* C6: reconstruct_secret returns the shared secret from every list of
\* exactly threshold distinct shares of one generate_shares call, in any
\* order, for every secret in [0, prime) and every 1 <= threshold <= total.
C6_ShamirCorrect ==
    (op = "reconstruct_secret" /\ shamir.threshold >= 1
        /\ Len(supplied) = shamir.threshold)
        => (error = "none" /\ reconstructed = secret)

C6_Witness ==
    /\ op = "reconstruct_secret"
    /\ shamir.threshold = 3 /\ shamir.total_shares = 4
    /\ Len(supplied) = 3
    /\ supplied[1][1] = 4 /\ supplied[2][1] = 1 /\ supplied[3][1] = 3
    /\ secret = shamir.prime - 1
    /\ reconstructed = secret

\* the share values that generate_shares can return at the ids of ids_ for
\* the secret s
ShareViews(s, ids_, sh) ==
    {[i \in ids_ |-> generate_shares(s, coeffs, sh).value[i][2]] :
        coeffs \in [1..(sh.threshold - 1) -> randint(1, sh.prime - 1)]}

\* C7: fewer than threshold shares rule out no secret: at every set of fewer
\* than threshold share ids the share values that generate_shares can return
\* are the same for every two secrets below prime.
C7_ShareSecrecy ==
    (op = "generate_shares" /\ error = "none" /\ shamir.threshold >= 1) =>
        \A ids_ \in SUBSET (1..shamir.total_shares) :
            Cardinality(ids_) < shamir.threshold =>
                \A s2 \in 0..(shamir.prime - 1) :
                    ShareViews(secret, ids_, shamir) = ShareViews(s2, ids_, shamir)

\* C8: combining the partial decryptions of at least threshold of the shares
\* of generate_distributed_keys returns the plaintext of the ciphertext.
C8_ThresholdDecryption ==
    (op = "combine_partial_decryptions"
        /\ Len(partial_results) >= threshold_paillier.threshold)
        => decrypted = m1

\* C9: once the election has its key, the whole private key (lambda, mu) is
\* not kept with the election, and a tally is decrypted from trustee shares
\* only, never from lambda and mu.
C9_WholeKeyDiscarded ==
    /\ election.public_key_n # None =>
          (election.private_key_lambda = None /\ election.private_key_mu = None)
    /\ election_result # NoResult => tally_key = "trustee_shares"

\* C11: reconstruct_secret raises its insufficient-shares error and returns
\* no secret whenever it is handed fewer than threshold shares.
C11_InsufficientShares ==
    (op = "reconstruct_secret" /\ Len(supplied) < shamir.threshold)
        => (error = "ValueError" /\ reconstructed = None)

C11_Witness ==
    /\ op = "reconstruct_secret"
    /\ shamir.threshold = 3
    /\ Len(supplied) = shamir.threshold - 1
    /\ error = "ValueError" /\ reconstructed = None

\* C12: generate_shares raises its secret-too-large error and returns no
\* shares for every secret >= prime, so generate_distributed_keys raises, and
\* shares nothing, for every key pair whose lambda is not below the sharing
\* prime.
C12_SecretTooLarge ==
    op = "generate_distributed_keys" =>
        /\ secret = key_pair.lambda_val
        /\ secret >= shamir.prime => (error = "ValueError" /\ shares = <<>>)
        /\ \A s \in shamir.prime .. key_pair.n :
              generate_shares(s, coefficients, shamir) = Raise("ValueError")

C12_Witness ==
    /\ op = "generate_distributed_keys"
    /\ threshold_paillier.threshold = 2
    /\ key_pair.lambda_val >= shamir.prime
    /\ error = "ValueError" /\ shares = <<>>

\* C13: verify_vote_encryption(c, (n, g)) returns true exactly when
\* 0 < c < n^2 and gcd(c, n) = 1; it returns false for 0, for negative c, for
\* c >= n^2 and for the multiples of a prime factor of n, and true for a
\* ciphertext that encrypt has just returned.
C13_VerifyVoteEncryption ==
    op = "verify_vote_encryption" =>
        /\ verified <=> (/\ 0 < checked_vote
                         /\ checked_vote < key_pair.n * key_pair.n
                         /\ gcd(checked_vote, key_pair.n) = 1)
        /\ (ciphertext # None /\ checked_vote = ciphertext) => verified

C13_Witness ==
    /\ op = "verify_vote_encryption"
    /\ 0 < checked_vote /\ checked_vote < key_pair.n
    /\ gcd(checked_vote, key_pair.n) # 1
    /\ ciphertext # None /\ checked_vote # ciphertext
    /\ ~verified

\* C14: every ciphertext that encrypt returns, and every ciphertext obtained
\* from such ciphertexts by add_ciphertexts, by multiply_ciphertext with a
\* scalar >= 0 or by aggregate_votes on a non-empty list, in any sequence,
\* lies in [1, n^2), is coprime to n and passes verify_vote_encryption.
C14_CiphertextValid ==
    \A i \in 1..Len(pool) :
        /\ 1 <= pool[i] /\ pool[i] < key_pair.n * key_pair.n
        /\ gcd(pool[i], key_pair.n) = 1
        /\ verify_vote_encryption(pool[i], public_key_of(key_pair))

C14_Witness ==
    /\ Len(pool) = 3
    /\ op = "multiply_ciphertext" /\ scalar = 0
    /\ pool[1] # 1
    /\ pool[2] = add_ciphertexts(pool[1], pool[1], public_key_of(key_pair))
    /\ pool[3] = multiply_ciphertext(pool[2], scalar, public_key_of(key_pair))
    /\ verify_vote_encryption(pool[3], public_key_of(key_pair))

\* C15: aggregate_votes returns 0 exactly when its list is empty; on a
\* non-empty list of ciphertexts that encrypt_vote returned it never returns 0.
C15_SentinelOnlyForEmpty ==
    op = "aggregate_votes" => (ciphertext = 0 <=> encrypted_votes = <<>>)

C15_Witness ==
    /\ op = "aggregate_votes"
    /\ encrypted_votes = <<>>
    /\ ciphertext = 0
    /\ decrypted = None

\* C16: decrypt raises an error of its own for the 0 that aggregate_votes
\* returns for an empty list, and returns no plaintext for it.
C16_SentinelRejected ==
    (op = "aggregate_votes" /\ encrypted_votes = <<>>) => decrypted = None

\* C17: verify_share returns true for every share of a generate_shares call
\* and every list of other shares of the same call, whether the list has
\* fewer than threshold - 1 shares or not.
C17_GenuineShareAccepted ==
    (op = "verify_share" /\ shamir.threshold >= 1 /\ share \in Range(shares))
        => verified

\* C18: every constructed ShamirSecretSharing and ThresholdPaillier instance
\* has 1 <= threshold <= total_shares; a threshold above the total or below 1
\* is rejected by the constructor.
C18_ThresholdInRange ==
    /\ shamir # NoShamir =>
          (1 <= shamir.threshold /\ shamir.threshold <= shamir.total_shares)
    /\ threshold_paillier # NoThreshold =>
          (/\ 1 <= threshold_paillier.threshold
           /\ threshold_paillier.threshold <= threshold_paillier.total_trustees)

\* C19: every key pair that generate_key_pair returns comes from two distinct
\* primes p and q with n = p * q, g = n + 1, lambda = lcm(p - 1, q - 1) and
\* (lambda * mu) mod n = 1; when lambda has no inverse mod n the call fails
\* and returns no key pair.
C19_KeyPairWellFormed ==
    /\ key_pair # NoKey =>
          /\ \E p \in 2..key_pair.n :
                LET q == key_pair.n \div p
                IN  /\ key_pair.n = p * q
                    /\ IsPrime(p) /\ IsPrime(q) /\ p # q
                    /\ key_pair.lambda_val = lcm(p - 1, q - 1)
          /\ key_pair.g = key_pair.n + 1
          /\ (key_pair.lambda_val * key_pair.mu) % key_pair.n = 1
    /\ (op = "generate_key_pair" /\ error # "none") => key_pair = NoKey

C19_Witness ==
    /\ op = "generate_key_pair" /\ error = "none"
    /\ key_pair.n = 143 /\ key_pair.g = 144
    /\ key_pair.lambda_val = 60
    /\ (key_pair.lambda_val * key_pair.mu) % key_pair.n = 1

\* C20: the list that generate_shares (and so generate_distributed_keys)
\* returns has exactly total_shares tuples (id, value), the ids are
\* 1, 2, ..., total_shares in this order, so never 0, and every value is in
\* [0, prime).
C20_SharesShape ==
    shares # <<>> =>
        /\ Len(shares) = shamir.total_shares
        /\ \A i \in 1..Len(shares) :
              /\ Len(shares[i]) = 2
              /\ shares[i][1] = i /\ shares[i][1] # 0
              /\ 0 <= shares[i][2] /\ shares[i][2] < shamir.prime

C20_Witness ==
    /\ op = "generate_shares" /\ error = "none"
    /\ shamir.total_shares = 4 /\ shamir.threshold = 3
    /\ Len(shares) = 4 /\ shares[4][1] = 4
    /\ secret = shamir.prime - 1

\* C21: reconstruct_secret uses only the first threshold shares of its list:
\* for a list of more than threshold shares it returns what it returns for
\* the first threshold of them, and what it returns when the later shares are
\* replaced by forged ones.
C21_FirstThresholdSharesOnly ==
    (op = "reconstruct_secret" /\ Len(supplied) > shamir.threshold) =>
        LET first  == SubSeq(supplied, 1, shamir.threshold)
            later  == SubSeq(supplied, shamir.threshold + 1, Len(supplied))
            forged == [i \in 1..Len(later) |->
                          <<later[i][1], (later[i][2] + 1) % shamir.prime>>]
        IN  /\ reconstruct_secret(first, shamir) = [error |-> error, value |-> reconstructed]
            /\ reconstruct_secret(first \o forged, shamir) =
                   [error |-> error, value |-> reconstructed]

C21_Witness ==
    /\ op = "reconstruct_secret"
    /\ shamir.threshold = 2
    /\ Len(supplied) = 4
    /\ error = "none" /\ reconstructed = secret

\* C22: given at least threshold genuine other shares, verify_share returns
\* false for every share (id, v) whose value v is not the value of the
\* sharing polynomial at id.
C22_ForgedShareRejected ==
    (/\ op = "verify_share"
     /\ shamir.threshold >= 1
     /\ Len(supplied) >= shamir.threshold
     /\ share[2] # _evaluate_polynomial(<<secret>> \o coefficients, share[1], shamir.prime))
        => ~verified

\* C23: ThresholdPaillier.combine_partial_decryptions and
\* ThresholdDecryption.combine_partial_decryptions both return
\* (L(P) * mu) mod n for the product P of the partials mod n^2, so they
\* return the same value for the same partials and key.
C23_CombineImplementationsAgree ==
    (op = "ThresholdDecryption.combine_partial_decryptions" /\ decrypted # None) =>
        LET P   == combine_loop(1, partial_results, key_pair.n * key_pair.n)
            L_P == (P - 1) \div key_pair.n
        IN  /\ decrypted = (L_P * key_pair.mu) % key_pair.n
            /\ td_combined = (L_P * key_pair.mu) % key_pair.n
            /\ td_combined = decrypted

\* C24: combine_partial_decryptions enforces no quorum: for a list of fewer
\* than threshold partials it raises no error and returns a value, 0 for the
\* empty list; so do both implementations.
C24_NoQuorumEnforced ==
    /\ (op = "combine_partial_decryptions"
            /\ Len(partial_results) < threshold_paillier.threshold) =>
          /\ error = "none"
          /\ decrypted \in 0..(key_pair.n - 1)
          /\ partial_results = <<>> => decrypted = 0
    /\ (op = "ThresholdDecryption.combine_partial_decryptions"
            /\ Len(partial_results) < threshold_paillier.threshold) =>
          /\ error = "none"
          /\ td_combined # None
          /\ partial_results = <<>> => td_combined = 0

C24_Witness ==
    /\ op = "combine_partial_decryptions"
    /\ threshold_paillier.threshold = 2
    /\ Len(partial_results) = 1
    /\ error = "none" /\ decrypted # None

\* C25: when ballots arrive one at a time and a single writer replaces its
\* accumulator by add_ciphertexts(accumulator, ballot), then in every order
\* of folding and every interleaving with the arrivals the accumulator, once
\* all the ballots are folded, equals aggregate_votes of the ballot list.
C25_IncrementalAggregation ==
    (op = "accumulate" /\ Len(accumulated) = Len(encrypted_votes)) =>
        ciphertext = aggregate_votes(encrypted_votes, public_key_of(key_pair))

C25_Witness ==
    /\ op = "accumulate"
    /\ accumulated = <<2, 1, 3>>
    /\ Len(encrypted_votes) = 3
    /\ encrypted_votes[1] # encrypted_votes[2]
    /\ encrypted_votes[2] # encrypted_votes[3]
    /\ ciphertext = aggregate_votes(encrypted_votes, public_key_of(key_pair))

\* C26: the operations of the crypto core are pure: no call of encrypt,
\* decrypt, add_ciphertexts, multiply_ciphertext, aggregate_votes,
\* generate_shares, reconstruct_secret or verify_share changes the fields of
\* the key pair, the parameters of the ShamirSecretSharing instance, or a
\* list of the caller (the encrypted votes, the generated shares, the
\* ciphertext operands).
C26_Pure ==
    [][/\ key_pair # NoKey => key_pair' = key_pair
       /\ shamir # NoShamir => shamir' = shamir
       /\ op' \in {"reconstruct_secret", "verify_share"} => shares' = shares
       /\ op' \in {"aggregate_votes", "accumulate"} =>
             (encrypted_votes' = encrypted_votes /\ votes' = votes)
       /\ (op' = "encrypt_vote" /\ encrypted_votes # <<>>) =>
             SubSeq(encrypted_votes', 1, Len(encrypted_votes)) = encrypted_votes
       /\ op' \in {"add_ciphertexts", "multiply_ciphertext"} =>
             (c1' = c1 /\ c2' = c2 /\ pool' \in {pool, Append(pool, ciphertext')})
       /\ decrypted' # decrypted => ciphertext' = ciphertext]_vars

C26_Witness ==
    /\ op = "reconstruct_secret" /\ error = "none"
    /\ supplied = shares
    /\ Len(shares) = shamir.total_shares
    /\ shamir.threshold = 2 /\ shamir.total_shares = 4
    /\ reconstructed = secret

\* C27: after any sequence of deploy, cast_vote and decrypt_tally every stored
\* ballot was encrypted under the election's own public key, and decrypt_tally
\* decrypted with the private key stored with the election, never with a
\* freshly generated key pair
C27_OneKeyPerElection ==
    /\ \A i \in 1..Len(stored_votes) : stored_votes[i].cast_n = election.public_key_n
    /\ election_result # NoResult => tally_key = "stored_private_key"

\* the number of stored ballots (all stored with is_valid = True) whose
\* candidate_id is c
RECURSIVE valid_votes_for(_, _)
valid_votes_for(votes_, c) ==
    IF votes_ = <<>> THEN 0
    ELSE (IF Head(votes_).candidate_id = c THEN 1 ELSE 0) + valid_votes_for(Tail(votes_), c)

\* C28: after decrypt_tally ran on the stored ballots, candidate_results[c] is
\* the number of valid votes cast for candidate c, for every candidate, and
\* total_votes is the number of valid votes of the election
C28_TallyEqualsVoteCount ==
    op = "decrypt_tally" =>
        /\ \A i \in 1..Len(Candidates) :
              election_result.candidate_results[i] = valid_votes_for(stored_votes, Candidates[i])
        /\ election_result.total_votes = Len(stored_votes)

\* C29: the integer decrypt_tally parses from a stored ballot's encrypted_vote
\* string is the ciphertext produced at cast time, for both cast_vote endpoints
C29_EncodingRoundTrips ==
    \A i \in 1..Len(stored_votes) :
        parse_encrypted_vote(stored_votes[i].encrypted_vote) = Return(stored_votes[i].cast_value)

\* the same round trip for the ballots stored by cast_vote of api/views.py
\* alone: these hold, it is the unprefixed string of elections/views.py that
\* decrypt_tally misreads
ApiEncodingRoundTrips ==
    \A i \in 1..Len(stored_votes) :
        stored_votes[i].encrypted_vote.prefix = "0x" =>
            parse_encrypted_vote(stored_votes[i].encrypted_vote) = Return(stored_votes[i].cast_value)

\* C30: the r of an encrypt call lies in 1 .. n - 1 and is coprime to n, and two
\* encrypt calls under the same key and with the same plaintext that ended
\* with different r returned different ciphertexts
C30_EncryptRandomized ==
    /\ c1 # None => (r1 \in 1..(key_pair.n - 1) /\ gcd(r1, key_pair.n) = 1)
    /\ c2 # None => (r2 \in 1..(key_pair.n - 1) /\ gcd(r2, key_pair.n) = 1)
    /\ (c1 # None /\ c2 # None /\ m1 = m2 /\ r1 # r2) => c1 # c2

\* the plaintext 1 encrypted twice under n = 35, with r = 2 and r = 3, while the
\* draw 5 is never the r of a call
C30_Witness ==
    /\ op = "encrypt" /\ key_pair.n = 35
    /\ m1 = 1 /\ m2 = 1 /\ r1 = 2 /\ r2 = 3
    /\ c1 # None /\ c2 # None /\ c1 # c2
    /\ c1 = encrypt(1, public_key_of(key_pair), 2).value

====
